---------------------------- MODULE Spec2Model ----------------------------
(***************************************************************************)
(* Model of the dataset chatbot: src/app.py (upload, query routing, the    *)
(* query() coroutine with its cleanup block), src/utils/data.py            *)
(* (team_config, orchestrate) and calculate_trend of                       *)
(* src/utils/report_generator.py.                                          *)
(*                                                                         *)
(* File names are triples <<kind, number, text>>:                          *)
(*   <<"data", N, ext>>    TEMP_DIR/data<N>.<ext>  and its run_dir copy    *)
(*   <<"plot", r, img>>    TEMP_DIR/<run_id r>_<img>                       *)
(*   <<"png", mtime, img>> run_dir/<img> with modification time mtime      *)
(* uuid4().hex is modelled as a fresh run number.                          *)
(***************************************************************************)
EXTENDS Integers, Sequences, FiniteSets

\* ---------------------------------------------------------------- bounds
MaxRuns == 2
MaxFiles == 1
ReportMaxFiles == 3
MaxSeriesLen == 3
MaxMtime == 2
MaxRaiseTurn == 2
TextClasses == 2

\* ------------------------------------------------------ program constants
MaxTurns == 20
DataExts == {"csv", "json"}
ImageNames == {"a.png", "b.png"}
Participants == <<"code_developer", "code_executor">>

NoPath == <<"none", 0, "">>
NoPrompt == [report |-> FALSE, columns |-> FALSE, submitted |-> FALSE]
NoToken == <<"", 0>>
NoReport == [token |-> NoToken, file |-> NoPath, result |-> "none"]
NoTrend == <<"none", 0>>
NoState == [saved |-> FALSE, next_speaker_index |-> 0, current_turn |-> 0]
Marker == "Stopping reason"

VARIABLES
    temp_files,          \* files in TEMP_DIR
    run_dirs,            \* run ids whose directory TEMP_DIR/<run_id> exists
    run_files,           \* files inside the run directory of the query in progress
    last_plot,           \* st.session_state["last_plot"]
    last_plot_filename,  \* st.session_state["last_plot_filename"]
    team_state,          \* st.session_state["team_state"], NoState when absent
    pc,                  \* position of the script / of query()
    run_id,              \* run id of the query in progress, 0 when none
    runs_started,        \* number of run ids drawn so far
    task_has_phrase,     \* the prompt (task message) contains the phrase
    next_speaker_index,  \* RoundRobinGroupChat manager state
    current_turn,        \* RoundRobinGroupChat manager state
    speaker,             \* the agent whose turn is in progress, "none" otherwise
    stop_reason,         \* "none", "phrase", "max_turns"
    stream,              \* speaker tags of the items orchestrate has yielded
    sandbox,             \* "new", "started", "stopped"
    stop_calls,          \* number of local_executor.stop() calls in this query
    raised,              \* an exception is propagating out of the loop
    previous_path,       \* previous_path of the promotion block
    occupants,           \* ghost: run ids of all files that ever occupied the slot
    ended,               \* ghost: how the last query ended
    prompt,              \* what the routing reads in the submitted prompt
    report,              \* the report path: dataset token, resolved file, outcome
    task_paths,          \* dataset paths listed in the task handed to the loop
    executed_ok,         \* an Executor message of the stream in progress reported a successful execution
    series,              \* argument of calculate_trend
    trend,               \* value returned by calculate_trend
    load_failed,         \* ghost: team.load_state raised in this query
    save_failed,         \* ghost: team.save_state raised in this query
    rmtree_calls,        \* ghost: number of shutil.rmtree(run_dir) calls in this query
    non_meta_messages,   \* the list non_meta_messages of query()
    messages             \* st.session_state.messages

vars == <<temp_files, run_dirs, run_files, last_plot, last_plot_filename,
          team_state, pc, run_id, runs_started, task_has_phrase,
          next_speaker_index, current_turn, speaker, stop_reason, stream,
          sandbox, stop_calls, raised, previous_path, occupants, ended,
          prompt, report, task_paths, executed_ok, series, trend,
          load_failed, save_failed, rmtree_calls, non_meta_messages,
          messages>>

inputVars == <<prompt, report>>
trendVars == <<series, trend>>
snapshotVars == <<load_failed, save_failed>>
msgVars == <<non_meta_messages, messages>>
fsVars == <<temp_files, run_dirs, run_files>>
slotVars == <<last_plot, last_plot_filename>>
loopVars == <<next_speaker_index, current_turn, speaker, stop_reason, stream>>

\* ----------------------------------------------------------- file helpers
IsData(f) == f[1] = "data"
IsPng(f) == f[1] = "png"
\* p.suffix.lower() == ".png" for a file of TEMP_DIR
IsTempPng(f) == f[1] = "plot"
DataFiles(fs) == {f \in fs : IsData(f)}
\* Mutant: glob("*") instead of glob("*.png")
AnyFiles(fs) == fs

\* run_dir.glob("*.png")
Pngs(fs) == {f \in fs : IsPng(f)}

\* A fresh session: no run yet, session state at its defaults
InitSession ==
    /\ run_dirs = {}
    /\ run_files = {}
    /\ last_plot = NoPath
    /\ last_plot_filename = NoPath
    /\ team_state = NoState
    /\ pc = "idle"
    /\ run_id = 0
    /\ runs_started = 0
    /\ task_has_phrase = FALSE
    /\ next_speaker_index = 0
    /\ current_turn = 0
    /\ speaker = "none"
    /\ stop_reason = "none"
    /\ stream = <<>>
    /\ sandbox = "new"
    /\ stop_calls = 0
    /\ raised = FALSE
    /\ previous_path = NoPath
    /\ occupants = {}
    /\ ended = "none"
    /\ prompt = NoPrompt
    /\ report = NoReport
    /\ task_paths = {}
    /\ executed_ok = FALSE
    /\ load_failed = FALSE
    /\ save_failed = FALSE
    /\ rmtree_calls = 0
    /\ non_meta_messages = <<>>
    /\ messages = <<>>

Init ==
    /\ temp_files = {}
    /\ series = <<>>
    /\ trend = NoTrend
    /\ InitSession

\* Files of TEMP_DIR that are plots no longer in the slot
StalePngs == {f \in temp_files : IsTempPng(f) /\ f # last_plot}

\* Mutant: the cleanup does not spare the slot's file
CleanTempAll(kept) == {f \in temp_files : f \in kept}

\* Mutant: the cleanup removes plots only and keeps the dataset files
CleanTempKeepsData(kept) ==
    {f \in temp_files : f = last_plot \/ f \in kept \/ IsData(f)}

\* clean_temp_keep_persistent_plot: every file of TEMP_DIR except the slot's
\* file is unlinked; an unlink that fails leaves its file (kept).
CleanTemp(kept) == {f \in temp_files : f = last_plot \/ f \in kept}

\* The files written for an upload of n files with extensions exts
UploadedFiles(n, exts) == {<<"data", i, exts[i]>> : i \in 1..n}

\* if uploaded_files: clean, then write data<idx><ext> for idx = 1..n. The
\* unlink of a stale plot may fail; the unlink of a dataset file is taken to
\* succeed.
Upload ==
    /\ pc = "idle"
    /\ \E n \in 1..MaxFiles, exts \in [1..MaxFiles -> DataExts],
          kept \in SUBSET StalePngs :
          temp_files' = CleanTemp(kept) \cup UploadedFiles(n, exts)
    /\ UNCHANGED <<run_dirs, run_files, last_plot, last_plot_filename,
                   team_state, pc, run_id, runs_started, task_has_phrase,
                   next_speaker_index, current_turn, speaker, stop_reason,
                   stream, sandbox, stop_calls, raised, previous_path,
                   occupants, ended>>
    /\ UNCHANGED <<inputVars, task_paths, executed_ok, trendVars>>
    /\ UNCHANGED <<snapshotVars, rmtree_calls, msgVars>>

\* if prompt: every .png file of TEMP_DIR except the slot's file is unlinked;
\* an unlink that fails leaves its file (kept).
CleanPngs(kept) ==
    {f \in temp_files : ~IsTempPng(f) \/ f = last_plot \/ f \in kept}

\* Spellings of the dataset word a prompt may use
DataWords == {"data", "DATA"}

\* Dataset tokens a prompt may hold: none, or data<N> in either spelling for
\* the datasets of the workspace and one number beyond
PromptTokens ==
    {NoToken} \cup (DataWords \X (1..(Cardinality(DataFiles(temp_files)) + 1)))

\* parse_columns, lines 44-46: the prompt is lower-cased and the number of
\* the first data<N> token is taken (0 stands for None)
ParseDataset(token) == IF token = NoToken THEN 0 ELSE token[2]

\* Mutant: either condition alone selects the report path
RouteEither(has_report, has_columns) ==
    IF has_report \/ has_columns THEN "report" ELSE "loop"

\* if "report" in prompt.lower() and columns_to_report: ... else: ...
Route(has_report, has_columns) ==
    IF has_report /\ has_columns THEN "report" ELSE "loop"

\* Character codes of the decimal digits of n
RECURSIVE Digits(_)
Digits(n) == IF n < 10 THEN <<48 + n>> ELSE Append(Digits(n \div 10), 48 + (n % 10))

\* Character codes of the extensions and image names of the model
Chars(text) ==
    CASE text = "csv" -> <<99, 115, 118>>
      [] text = "json" -> <<106, 115, 111, 110>>
      [] text = "a.png" -> <<97, 46, 112, 110, 103>>
      [] text = "b.png" -> <<98, 46, 112, 110, 103>>
      [] OTHER -> <<>>

\* The file's name as a string: data<N>.<ext>, <run_id>_<image>
NameChars(f) ==
    IF f[1] = "data"
    THEN <<100, 97, 116, 97>> \o Digits(f[2]) \o <<46>> \o Chars(f[3])
    ELSE Digits(f[2]) \o <<95>> \o Chars(f[3])

\* a < b for strings: the first differing character decides, a proper prefix
\* is smaller
RECURSIVE LexLess(_, _)
LexLess(a, b) ==
    IF a = <<>> THEN b # <<>>
    ELSE IF b = <<>> THEN FALSE
    ELSE IF Head(a) = Head(b) THEN LexLess(Tail(a), Tail(b))
    ELSE Head(a) < Head(b)

\* sorted(TEMP_DIR.iterdir()): the files in the order of their names
RECURSIVE Sorted(_)
Sorted(fs) ==
    IF fs = {} THEN <<>>
    ELSE LET least == CHOOSE f \in fs :
                         \A g \in fs \ {f} : LexLess(NameChars(f), NameChars(g))
         IN <<least>> \o Sorted(fs \ {least})

\* for p in ...: if p.name.startswith("data") and p.suffix.lower() in
\* DATA_EXTS: return p
RECURSIVE FirstDataset(_)
FirstDataset(paths) ==
    IF paths = <<>> THEN NoPath
    ELSE IF IsData(Head(paths)) /\ Head(paths)[3] \in DataExts THEN Head(paths)
    ELSE FirstDataset(Tail(paths))

\* Mutant: the directory listing is used as it comes, unsorted
FindDatasetPathsUnsorted(fs, number) ==
    IF number # 0
    THEN IF {f \in DataFiles(fs) : f[2] = number} = {}
         THEN {NoPath}
         ELSE {f \in DataFiles(fs) : f[2] = number}
    ELSE IF DataFiles(fs) = {} THEN {NoPath} ELSE DataFiles(fs)

\* find_dataset_path: the values it can return. With a name, the first
\* existing data<N><ext> in the iteration order of the set DATA_EXTS; without,
\* the first dataset file of the sorted listing.
FindDatasetPaths(fs, number) ==
    IF number # 0
    THEN IF {f \in DataFiles(fs) : f[2] = number} = {}
         THEN {NoPath}
         ELSE {f \in DataFiles(fs) : f[2] = number}
    ELSE {FirstDataset(Sorted(fs))}

\* Outcomes of the report path for a resolved file: the document is made,
\* reading the file fails (st.error), or generate_pdf_report raises
ReportResults(file) ==
    IF file = NoPath THEN {"not_found"} ELSE {"generated", "load_failed", "raised"}

\* Lines 250-256: the dataset files of run_dir named in the task
TaskPaths(fs) == {f \in fs : IsData(f) /\ f[3] \in DataExts}

\* Lines 179-195 and 229-240: PNG cleanup, then query() draws a run id, makes
\* run_dir and copies the data* files into it (a failed copy is skipped).
StartQuery ==
    /\ pc = "idle"
    /\ runs_started < MaxRuns
    /\ \E has_report \in BOOLEAN, has_columns \in BOOLEAN :
          /\ Route(has_report, has_columns) = "loop"
          /\ prompt' = [report |-> has_report, columns |-> has_columns,
                        submitted |-> TRUE]
    /\ \E kept \in SUBSET StalePngs, phrase \in BOOLEAN :
          /\ temp_files' = CleanPngs(kept)
          /\ task_has_phrase' = phrase
          /\ \E copied \in SUBSET DataFiles(temp_files) :
                run_files' = copied
    /\ run_id' = runs_started + 1
    /\ runs_started' = runs_started + 1
    /\ run_dirs' = run_dirs \cup {runs_started + 1}
    /\ pc' = "team_config"
    /\ ended' = "running"
    /\ UNCHANGED <<slotVars, team_state, loopVars, sandbox, stop_calls, raised,
                   previous_path, occupants>>
    /\ UNCHANGED <<report, task_paths, executed_ok, trendVars>>
    /\ UNCHANGED <<snapshotVars, rmtree_calls, msgVars>>

\* Lines 179-226: PNG cleanup, then the report path: the dataset is resolved
\* and the report generator runs on it; the script run ends.
ReportQuery ==
    /\ pc = "idle"
    /\ \E has_report \in BOOLEAN, has_columns \in BOOLEAN :
          /\ Route(has_report, has_columns) = "report"
          /\ prompt' = [report |-> has_report, columns |-> has_columns,
                        submitted |-> TRUE]
    /\ \E kept \in SUBSET StalePngs : temp_files' = CleanPngs(kept)
    /\ \E token \in PromptTokens :
          \E file \in FindDatasetPaths(temp_files', ParseDataset(token)) :
             \E result \in ReportResults(file) :
                report' = [token |-> token, file |-> file, result |-> result]
    /\ pc' = "done"
    /\ ended' = "report"
    /\ UNCHANGED <<run_dirs, run_files, last_plot, last_plot_filename,
                   team_state, run_id, runs_started, task_has_phrase,
                   next_speaker_index, current_turn, speaker, stop_reason,
                   stream, sandbox, stop_calls, raised, previous_path,
                   occupants>>
    /\ UNCHANGED <<task_paths, executed_ok, trendVars>>
    /\ UNCHANGED <<snapshotVars, rmtree_calls, msgVars>>

\* Line 242, before the try block: team_config builds a fresh team, or raises
\* and the exception leaves query() at once.
TeamConfig ==
    /\ pc = "team_config"
    /\ \E ok \in BOOLEAN :
          /\ pc' = IF ok THEN "load_state" ELSE "done"
          /\ ended' = IF ok THEN ended ELSE "setup_raised"
    /\ UNCHANGED <<fsVars, slotVars, team_state, run_id, runs_started,
                   task_has_phrase, loopVars, sandbox, stop_calls, raised,
                   previous_path, occupants>>
    /\ UNCHANGED <<inputVars, task_paths, executed_ok, trendVars>>
    /\ UNCHANGED <<snapshotVars, rmtree_calls, msgVars>>

\* Lines 244-259: a stored snapshot is loaded into the fresh team (a failure
\* is logged and the team stays fresh), then the task is built from the
\* prompt and the dataset files of run_dir; the prompt is not read again.
\* non_meta_messages starts empty.
LoadState ==
    /\ pc = "load_state"
    /\ \E ok \in BOOLEAN :
          /\ IF team_state.saved /\ ok
             THEN /\ next_speaker_index' = team_state.next_speaker_index
                  /\ current_turn' = team_state.current_turn
             ELSE UNCHANGED <<next_speaker_index, current_turn>>
          /\ load_failed' = (team_state.saved /\ ~ok)
    /\ non_meta_messages' = <<>>
    /\ task_paths' = TaskPaths(run_files)
    /\ prompt' = NoPrompt
    /\ pc' = "start"
    /\ UNCHANGED <<fsVars, slotVars, team_state, run_id, runs_started,
                   task_has_phrase, speaker, stop_reason, stream, sandbox,
                   stop_calls, raised, previous_path, occupants, ended>>
    /\ UNCHANGED <<report, executed_ok, trendVars>>
    /\ UNCHANGED <<save_failed, rmtree_calls, messages>>

\* orchestrate, lines 151-155: local_executor.start(); a failure is re-raised
\* before orchestrate's try/finally is entered.
ExecutorStart ==
    /\ pc = "start"
    /\ \E ok \in BOOLEAN :
          /\ sandbox' = IF ok THEN "started" ELSE sandbox
          /\ raised' = ~ok
          /\ pc' = IF ok THEN "run_stream" ELSE "save_state"
          /\ task_paths' = IF ok THEN task_paths ELSE {}
    /\ UNCHANGED <<fsVars, slotVars, team_state, run_id, runs_started,
                   task_has_phrase, loopVars, stop_calls, previous_path,
                   occupants, ended>>
    /\ UNCHANGED <<inputVars, executed_ok, trendVars>>
    /\ UNCHANGED <<snapshotVars, rmtree_calls, msgVars>>

\* Mutant: every TextMessage is yielded under the developer's tag
TagAlwaysDeveloper(source) == "code_developer"

\* f"{message.source}: {message.content}": an item is modelled by its prefix
Tag(source) == source

\* TextMentionTermination("TERMINATE") is built without a sources filter: it
\* looks at the text of every message, whoever sent it.
Mentions(source, has_phrase) == has_phrase

\* Mutant: the bound is compared with > instead of >=
TurnLimitOffByOne(turn) == turn > MaxTurns

\* max_turns=20
TurnLimitReached(turn) == turn >= MaxTurns

\* The text of the item at a position of the stream is one of TextClasses
\* texts; two messages of one agent that follow each other differ
Text(position) == (position \div 2) % TextClasses

\* msg, the string orchestrate yields: its prefix and its text
Msg(tag, position) == <<tag, Text(position)>>

\* msg.startswith(prefix)
StartsWith(msg, prefix) == msg[1] = prefix

\* query, lines 265-270: an item of one of the two agents is appended and
\* the list is cut to its last three items
Collect(window, msg) ==
    IF StartsWith(msg, "code_executor") \/ StartsWith(msg, "code_developer")
    THEN LET appended == Append(window, msg) IN
         IF Len(appended) > 3 THEN Tail(appended) ELSE appended
    ELSE window

\* The body of the async for, run on each item in turn
RECURSIVE CollectAll(_, _)
CollectAll(window, msgs) ==
    IF msgs = <<>> THEN window
    ELSE CollectAll(Collect(window, Head(msgs)), Tail(msgs))

\* The items orchestrate yields in a step: those the step adds to the stream
Yielded ==
    [i \in 1..(Len(stream') - Len(stream)) |->
        Msg(stream'[Len(stream) + i], Len(stream) + i)]

NoMsg == <<"none", 0>>

\* Mutant: the oldest developer message of the list is taken
FirstDeveloperMsg(window) ==
    LET devs == {i \in DOMAIN window : StartsWith(window[i], "code_developer")} IN
    IF devs = {} THEN NoMsg
    ELSE window[CHOOSE i \in devs : \A j \in devs : i <= j]

\* query, lines 325-332: next(msg for msg in reversed(non_meta_messages)
\* if msg.startswith("code_developer")), None when there is none
LastDeveloperMsg(window) ==
    LET devs == {i \in DOMAIN window : StartsWith(window[i], "code_developer")} IN
    IF devs = {} THEN NoMsg
    ELSE window[CHOOSE i \in devs : \A j \in devs : j <= i]

\* query, lines 336-338: messages = [], then the message is appended if any
StoredMessages(msg) == IF msg = NoMsg THEN <<>> ELSE <<msg>>

\* The round-robin manager picks the next speaker and advances its index.
SelectSpeaker ==
    /\ speaker' = Participants[next_speaker_index + 1]
    /\ next_speaker_index' = (next_speaker_index + 1) % Len(Participants)

\* Mutant: at the turn bound the counters are reset but the chat is not stopped
TerminateRestarts(reason, yielded) ==
    IF reason = "max_turns"
    THEN /\ stop_reason' = "none"
         /\ current_turn' = 0
         /\ speaker' = "code_developer"
         /\ next_speaker_index' = 1
         /\ stream' = <<"user">>
         /\ pc' = "respond"
    ELSE /\ stop_reason' = reason
         /\ current_turn' = 0
         /\ speaker' = "none"
         /\ stream' = Append(yielded, Marker)
         /\ pc' = "orch_finally"
         /\ UNCHANGED next_speaker_index

\* The group chat stops: the turn count is reset and the TaskResult is
\* yielded by orchestrate as the stop-reason item (lines 164-166).
Terminate(reason, yielded) ==
    /\ stop_reason' = reason
    /\ current_turn' = 0
    /\ speaker' = "none"
    /\ stream' = Append(yielded, Marker)
    /\ pc' = "orch_finally"
    /\ UNCHANGED next_speaker_index

\* team.run_stream(task=...) starts: the task message is streamed (source
\* "user"), the termination condition is applied to it, and otherwise the
\* first speaker is selected.
RunStreamStart ==
    /\ pc = "run_stream"
    /\ IF Mentions("user", task_has_phrase)
       THEN Terminate("phrase", <<Tag("user")>>)
       ELSE /\ SelectSpeaker
            /\ stream' = <<Tag("user")>>
            /\ pc' = "respond"
            /\ UNCHANGED <<current_turn, stop_reason>>
    /\ UNCHANGED <<fsVars, slotVars, team_state, run_id, runs_started,
                   task_has_phrase, sandbox, stop_calls, raised,
                   previous_path, occupants, ended>>
    /\ UNCHANGED <<inputVars, task_paths, executed_ok, trendVars>>
    /\ non_meta_messages' = CollectAll(non_meta_messages, Yielded)
    /\ UNCHANGED <<snapshotVars, rmtree_calls, messages>>

\* Files of run_dir after the executor's code wrote image img at time m
WriteImage(fs, m, img) ==
    {f \in fs : ~(IsPng(f) /\ f[3] = img)} \cup {<<"png", m, img>>}

\* Modification times the next write may get: not before any file's time
WriteTimes(fs) == {m \in 1..MaxMtime : \A f \in Pngs(fs) : f[2] <= m}

\* What the code run by the executor leaves in run_dir
ExecutorEffects(fs) ==
    {fs} \cup {WriteImage(fs, m, img) : m \in WriteTimes(fs), img \in ImageNames}

\* Whether a successful execution has been reported once the speaker's
\* message is in: the Executor's message reports success or failure of the
\* code it ran; nothing is kept of it when the stream ends
ExecutedOk(continues) ==
    IF ~continues THEN {FALSE}
    ELSE IF speaker = "code_executor" /\ ~executed_ok THEN BOOLEAN
    ELSE {executed_ok}

\* The speaker's message arrives: it is yielded (lines 161-163), then the
\* manager applies the termination condition, counts the turn, checks
\* max_turns, and otherwise selects the next speaker.
AgentResponse ==
    /\ pc = "respond"
    /\ \E has_phrase \in BOOLEAN :
          IF Mentions(speaker, has_phrase)
          THEN Terminate("phrase", Append(stream, Tag(speaker)))
          ELSE IF TurnLimitReached(current_turn + 1)
          THEN Terminate("max_turns", Append(stream, Tag(speaker)))
          ELSE /\ SelectSpeaker
               /\ current_turn' = current_turn + 1
               /\ stream' = Append(stream, Tag(speaker))
               /\ pc' = "respond"
               /\ UNCHANGED stop_reason
    /\ IF speaker = "code_executor"
       THEN \E fs \in ExecutorEffects(run_files) :
               run_files' = fs
       ELSE UNCHANGED run_files
    /\ executed_ok' \in ExecutedOk(pc' = "respond")
    /\ UNCHANGED <<temp_files, run_dirs, slotVars, team_state, run_id,
                   runs_started, task_has_phrase, sandbox, stop_calls, raised,
                   previous_path, occupants, ended>>
    /\ UNCHANGED <<inputVars, task_paths, trendVars>>
    /\ non_meta_messages' = CollectAll(non_meta_messages, Yielded)
    /\ UNCHANGED <<snapshotVars, rmtree_calls, messages>>

\* The speaker's turn raises (model client or executor error): run_stream
\* raises into orchestrate, no TaskResult is produced.
AgentRaises ==
    /\ pc = "respond"
    /\ current_turn < MaxRaiseTurn
    /\ raised' = TRUE
    /\ executed_ok' = FALSE
    /\ speaker' = "none"
    /\ pc' = "orch_finally"
    /\ UNCHANGED <<fsVars, slotVars, team_state, run_id, runs_started,
                   task_has_phrase, next_speaker_index, current_turn,
                   stop_reason, stream, sandbox, stop_calls, previous_path,
                   occupants, ended>>
    /\ UNCHANGED <<inputVars, task_paths, trendVars>>
    /\ UNCHANGED <<snapshotVars, rmtree_calls, msgVars>>

\* local_executor.stop(): a failure is caught by the caller and the sandbox
\* stays as it was.
StopSandbox(ok) ==
    /\ stop_calls' = stop_calls + 1
    /\ sandbox' = IF ok THEN "stopped" ELSE sandbox

\* orchestrate, lines 167-171: the finally block around the stream. The
\* generator is finished: what it yielded is kept nowhere but in the caller.
OrchestrateFinally ==
    /\ pc = "orch_finally"
    /\ \E ok \in BOOLEAN : StopSandbox(ok)
    /\ pc' = "save_state"
    /\ stream' = <<>>
    /\ stop_reason' = "none"
    /\ task_paths' = {}
    /\ UNCHANGED <<fsVars, slotVars, team_state, run_id, runs_started,
                   task_has_phrase, next_speaker_index, current_turn, speaker,
                   raised, previous_path, occupants, ended>>
    /\ UNCHANGED <<inputVars, executed_ok, trendVars>>
    /\ UNCHANGED <<snapshotVars, rmtree_calls, msgVars>>

\* Mutant: a failure of save_state is not caught
RaisedAfterSaveUncaught(ok) == raised \/ ~ok

\* except Exception around team.save_state(): the failure is printed and sets
\* no exception going; one that is propagating out of the loop stays
RaisedAfterSave(ok) == raised

\* query, lines 273-276: first step of the finally block.
SaveState ==
    /\ pc = "save_state"
    /\ \E ok \in BOOLEAN :
          /\ team_state' = IF ok
                        THEN [saved |-> TRUE,
                              next_speaker_index |-> next_speaker_index,
                              current_turn |-> current_turn]
                        ELSE team_state
          /\ save_failed' = ~ok
          /\ raised' = RaisedAfterSave(ok)
    /\ pc' = "promote"
    /\ next_speaker_index' = 0
    /\ current_turn' = 0
    /\ UNCHANGED <<fsVars, slotVars, run_id, runs_started, task_has_phrase,
                   speaker, stop_reason, stream, sandbox, stop_calls,
                   previous_path, occupants, ended>>
    /\ UNCHANGED <<inputVars, task_paths, executed_ok, trendVars>>
    /\ UNCHANGED <<load_failed, rmtree_calls, msgVars>>

\* run_dir.glob("*.png"): the images of run_dir in the order in which the
\* filesystem lists them, which is any order
GlobOrders(fs) ==
    {listing \in [1..Cardinality(Pngs(fs)) -> Pngs(fs)] :
        \A i, j \in DOMAIN listing : listing[i] = listing[j] => i = j}

\* One step of the stable sort: f goes behind every path whose time is not
\* later than its own
InsertByMtime(sorted, f) ==
    LET k == Cardinality({i \in DOMAIN sorted : sorted[i][2] <= f[2]}) IN
    SubSeq(sorted, 1, k) \o <<f>> \o SubSeq(sorted, k + 1, Len(sorted))

\* sorted(listing, key=lambda p: p.stat().st_mtime): Python's sort is stable,
\* paths of equal time keep the order of the listing
RECURSIVE SortByMtime(_)
SortByMtime(listing) ==
    IF listing = <<>> THEN <<>>
    ELSE InsertByMtime(SortByMtime(SubSeq(listing, 1, Len(listing) - 1)),
                       listing[Len(listing)])

\* latest_png = pngs[-1]
LatestPng(listing) == SortByMtime(listing)[Len(listing)]

\* The images the promotion may select: pngs[-1] for some order of the glob
LatestPngs(fs) == {LatestPng(listing) : listing \in GlobOrders(fs)}

\* Mutant: dest is named after the image alone
DestNoRunId(run, png) == <<"plot", 0, png[3]>>

\* dest = TEMP_DIR / f"{run_id}_{latest_png.name}"
Dest(run, png) == <<"plot", run, png[3]>>

\* Mutant: the previous occupant's file is unlinked before the copy is made
AfterCopyUnlinkFirst(files, dest, ok) ==
    (files \ {last_plot}) \cup (IF ok THEN {dest} ELSE {})

\* shutil.copy2(latest_png, dest): TEMP_DIR after the copy; a failed copy is
\* taken to leave no file at dest
AfterCopy(files, dest, ok) == IF ok THEN files \cup {dest} ELSE files

\* Mutant: the slot is pointed at the image inside the run directory
SlotValueInRunDir(dest, latest_png) == latest_png

\* st.session_state[LAST_PLOT_KEY] = str(dest.resolve())
SlotValue(dest, latest_png) == dest

\* query, lines 278-297 and 311-312: nothing without a PNG, or when scanning
\* run_dir raises; else copy the latest PNG to dest and point the slot at it.
\* A failed copy2 leaves the slot alone and skips the else branch.
Promote ==
    /\ pc = "promote"
    /\ \E scanned \in BOOLEAN :
          IF ~scanned \/ Pngs(run_files) = {} \/ run_id \notin run_dirs
          THEN /\ pc' = "stop"
               /\ UNCHANGED <<temp_files, slotVars, previous_path, occupants>>
          ELSE \E latest_png \in LatestPngs(run_files), ok \in BOOLEAN :
                  LET dest == Dest(run_id, latest_png) IN
                  /\ previous_path' = IF ok THEN last_plot ELSE NoPath
                  /\ temp_files' = AfterCopy(temp_files, dest, ok)
                  /\ last_plot' = IF ok THEN SlotValue(dest, latest_png)
                                  ELSE last_plot
                  /\ last_plot_filename' = IF ok THEN SlotValue(dest, latest_png)
                                           ELSE last_plot_filename
                  /\ occupants' = IF ok THEN occupants \cup {run_id}
                                  ELSE occupants
                  /\ pc' = IF ok THEN "unlink_previous" ELSE "stop"
    /\ UNCHANGED <<run_dirs, run_files, team_state, run_id, runs_started,
                   task_has_phrase, loopVars, sandbox, stop_calls, raised,
                   ended>>
    /\ UNCHANGED <<inputVars, task_paths, executed_ok, trendVars>>
    /\ UNCHANGED <<snapshotVars, rmtree_calls, msgVars>>

\* previous_path and previous_path.exists() and
\* previous_path.resolve() != dest.resolve()
ShouldUnlinkPrevious(prev, dest) ==
    prev # NoPath /\ prev \in temp_files /\ prev # dest

\* query, lines 297-310: after a successful copy the previous occupant's
\* file is unlinked; a failure is logged.
UnlinkPrevious ==
    /\ pc = "unlink_previous"
    /\ \E ok \in BOOLEAN :
          temp_files' = IF ShouldUnlinkPrevious(previous_path, last_plot) /\ ok
                        THEN temp_files \ {previous_path}
                        ELSE temp_files
    /\ pc' = "stop"
    /\ previous_path' = NoPath
    /\ UNCHANGED <<run_dirs, run_files, slotVars, team_state, run_id,
                   runs_started, task_has_phrase, loopVars, sandbox,
                   stop_calls, raised, occupants, ended>>
    /\ UNCHANGED <<inputVars, task_paths, executed_ok, trendVars>>
    /\ UNCHANGED <<snapshotVars, rmtree_calls, msgVars>>

\* Mutant: query() leaves the stop to orchestrate's finally block
ExecutorStopSkipped ==
    /\ pc = "stop"
    /\ pc' = "rmtree"
    /\ UNCHANGED <<fsVars, slotVars, team_state, run_id, runs_started,
                   task_has_phrase, loopVars, sandbox, stop_calls, raised,
                   previous_path, occupants, ended>>
    /\ UNCHANGED <<inputVars, task_paths, executed_ok, trendVars>>
    /\ UNCHANGED <<snapshotVars, rmtree_calls, msgVars>>

\* query, lines 314-317: local.stop(), any exception passed over.
ExecutorStop ==
    /\ pc = "stop"
    /\ \E ok \in BOOLEAN : StopSandbox(ok)
    /\ pc' = "rmtree"
    /\ UNCHANGED <<fsVars, slotVars, team_state, run_id, runs_started,
                   task_has_phrase, loopVars, raised, previous_path,
                   occupants, ended>>
    /\ UNCHANGED <<inputVars, task_paths, executed_ok, trendVars>>
    /\ UNCHANGED <<snapshotVars, rmtree_calls, msgVars>>

\* Mutant: every run directory under TEMP_DIR is removed
RmtreeEveryDir(dirs, run) == {}

\* shutil.rmtree(run_dir): the directory and all it holds are gone
RmtreeDirs(dirs, run) == dirs \ {run}

\* query, lines 319-323, then the end of the finally block: a propagating
\* exception leaves query(); otherwise lines 325-341 follow.
Rmtree ==
    /\ pc = "rmtree"
    /\ \E ok \in BOOLEAN :
          IF ok /\ run_id \in run_dirs
          THEN /\ run_dirs' = RmtreeDirs(run_dirs, run_id)
               /\ run_files' = {}
          ELSE UNCHANGED <<run_dirs, run_files>>
    /\ rmtree_calls' = IF run_id \in run_dirs THEN rmtree_calls + 1
                       ELSE rmtree_calls
    /\ pc' = IF raised THEN "done" ELSE "finish"
    /\ ended' = IF raised THEN "raised" ELSE ended
    /\ UNCHANGED <<temp_files, slotVars, team_state, run_id, runs_started,
                   task_has_phrase, loopVars, sandbox, stop_calls, raised,
                   previous_path, occupants>>
    /\ UNCHANGED <<inputVars, task_paths, executed_ok, trendVars>>
    /\ UNCHANGED <<snapshotVars, msgVars>>

\* query, lines 325-341: the stored messages are replaced; query() returns.
Finish ==
    /\ pc = "finish"
    /\ pc' = "done"
    /\ ended' = "completed"
    /\ UNCHANGED <<fsVars, slotVars, team_state, run_id, runs_started,
                   task_has_phrase, loopVars, sandbox, stop_calls, raised,
                   previous_path, occupants>>
    /\ UNCHANGED <<inputVars, task_paths, executed_ok, trendVars>>
    /\ messages' = StoredMessages(LastDeveloperMsg(non_meta_messages))
    /\ UNCHANGED <<snapshotVars, rmtree_calls, non_meta_messages>>

\* asyncio.run(query()) is over (returned or raised) and the script run ends;
\* the locals of query() are gone, the session state and the files stay.
ScriptEnd ==
    /\ pc = "done"
    /\ pc' = "idle"
    /\ run_id' = 0
    /\ run_files' = {}
    /\ task_has_phrase' = FALSE
    /\ next_speaker_index' = 0
    /\ current_turn' = 0
    /\ speaker' = "none"
    /\ stop_reason' = "none"
    /\ stream' = <<>>
    /\ sandbox' = "new"
    /\ stop_calls' = 0
    /\ raised' = FALSE
    /\ previous_path' = NoPath
    /\ ended' = "none"
    /\ prompt' = NoPrompt
    /\ report' = NoReport
    /\ task_paths' = {}
    /\ executed_ok' = FALSE
    /\ UNCHANGED <<temp_files, run_dirs, slotVars, team_state, runs_started,
                   occupants>>
    /\ UNCHANGED <<trendVars>>
    /\ load_failed' = FALSE
    /\ save_failed' = FALSE
    /\ rmtree_calls' = 0
    /\ non_meta_messages' = <<>>
    /\ UNCHANGED messages

Next ==
    \/ Upload
    \/ StartQuery
    \/ ReportQuery
    \/ TeamConfig
    \/ LoadState
    \/ ExecutorStart
    \/ RunStreamStart
    \/ AgentResponse
    \/ AgentRaises
    \/ OrchestrateFinally
    \/ SaveState
    \/ Promote
    \/ UnlinkPrevious
    \/ ExecutorStop
    \/ Rmtree
    \/ Finish
    \/ ScriptEnd

Spec == Init /\ [][Next]_vars

\* Report queries against the workspace an upload of up to ReportMaxFiles
\* files has left
ReportInit ==
    /\ \E n \in 1..ReportMaxFiles, exts \in [1..ReportMaxFiles -> DataExts] :
          temp_files = UploadedFiles(n, exts)
    /\ series = <<>>
    /\ trend = NoTrend
    /\ InitSession

ReportNext == ReportQuery \/ ScriptEnd

ReportSpec == ReportInit /\ [][ReportNext]_vars

\* Values a column may hold; a value moves by 0.2 percent between 500 and 501
TrendValues == {-500, -10, 0, 5, 10, 20, 499, 500, 501}

\* The series of up to n values
SeriesUpTo(n) == UNION {[1..k -> TrendValues] : k \in 0..n}

Abs(x) == IF x < 0 THEN -x ELSE x

\* round(a / b, 0) for b > 0: the nearest integer, a tie goes to the even one
RoundDiv(a, b) ==
    LET q == a \div b
        r == a % b
    IN IF 2 * r < b THEN q
       ELSE IF 2 * r > b THEN q + 1
       ELSE IF q % 2 = 0 THEN q ELSE q + 1

\* Mutant: a strength of exactly 0.2 or -0.2 counts as a trend
CalculateTrendInclusive(values) ==
    IF Len(values) < 2 \/ values[1] = 0
    THEN <<"stable", 0>>
    ELSE LET num == (values[Len(values)] - values[1]) * 100
             den == Abs(values[1])
         IN <<IF 10 * num >= 2 * den THEN "increasing"
              ELSE IF 10 * num <= -2 * den THEN "decreasing"
              ELSE "stable",
              RoundDiv(num * 100, den)>>

\* calculate_trend: trend_strength is the fraction num / den; the result is
\* the direction and round(trend_strength, 2), counted in hundredths
CalculateTrend(values) ==
    IF Len(values) < 2 \/ values[1] = 0
    THEN <<"stable", 0>>
    ELSE LET num == (values[Len(values)] - values[1]) * 100
             den == Abs(values[1])
         IN <<IF 10 * num > 2 * den THEN "increasing"
              ELSE IF 10 * num < -2 * den THEN "decreasing"
              ELSE "stable",
              RoundDiv(num * 100, den)>>

\* format_stats, line 45: the trend of a column's non-missing values
FormatStats ==
    /\ trend = NoTrend
    /\ trend' = CalculateTrend(series)
    /\ UNCHANGED <<temp_files, run_dirs, run_files, last_plot,
                   last_plot_filename, team_state, pc, run_id, runs_started,
                   task_has_phrase, next_speaker_index, current_turn, speaker,
                   stop_reason, stream, sandbox, stop_calls, raised,
                   previous_path, occupants, ended, prompt, report,
                   task_paths, executed_ok, series>>
    /\ UNCHANGED <<snapshotVars, rmtree_calls, msgVars>>

\* calculate_trend applied to each series of up to MaxSeriesLen values
TrendInit ==
    /\ series \in SeriesUpTo(MaxSeriesLen)
    /\ trend = NoTrend
    /\ temp_files = {}
    /\ InitSession

TrendSpec == TrendInit /\ [][FormatStats]_vars

\* A turn of any agent completes or raises, and orchestrate's finally block
\* runs: the event loop keeps driving the one coroutine of the query.
LoopStep == RunStreamStart \/ AgentResponse \/ AgentRaises \/ OrchestrateFinally

LiveSpec == Init /\ [][Next]_vars /\ WF_vars(LoopStep)

\* ------------------------------------------------------------------ claims
Agents == {"code_developer", "code_executor"}

\* Number of Developer and Executor messages streamed so far in this run
AgentTurns == Cardinality({i \in DOMAIN stream : stream[i] \in Agents})

\* The run directory of the query in progress holds an image
RunDirHasImage == \E f \in run_files : f[1] = "png"

\* C1: a run never takes more than 20 Developer plus Executor turns; once 20
\* turns are taken the loop has stopped (no turn in progress) with the
\* max-turns reason, or with the phrase reason if the 20th message held it.
C1_TurnBound ==
    /\ AgentTurns <= MaxTurns
    /\ AgentTurns = MaxTurns =>
          /\ pc = "orch_finally"
          /\ speaker = "none"
          /\ stop_reason \in {"max_turns", "phrase"}
          /\ stream[Len(stream)] = Marker

C1_Witness ==
    /\ AgentTurns = MaxTurns
    /\ stop_reason = "max_turns"
    /\ pc = "orch_finally"

\* C2: once run_stream has started, and as long as every turn returns or
\* raises, the stream ends with the stop reason phrase or max-turns (or with
\* the exception of a turn that raised), and orchestrate's finally block
\* hands control back to query().
C2_LoopTerminates ==
    /\ (pc = "run_stream") ~>
          (pc = "orch_finally"
              /\ (raised \/ stop_reason \in {"phrase", "max_turns"}))
    /\ (pc = "orch_finally") ~> (pc = "save_state")

\* A run that went to the turn bound has ended its stream
C2_Witness ==
    /\ pc = "orch_finally"
    /\ AgentTurns = MaxTurns
    /\ stop_reason = "max_turns"
    /\ ~raised

\* C3: the slot is empty or names a file that exists in TEMP_DIR, in every
\* state of every sequence of uploads, report queries and loop queries.
C3_SlotFileExists == last_plot = NoPath \/ last_plot \in temp_files

\* The slot holds the plot of a second run, the first run's plot is gone,
\* and an upload has cleaned TEMP_DIR around it.
C3_Witness ==
    /\ pc = "idle"
    /\ last_plot # NoPath
    /\ occupants = {1, 2}
    /\ temp_files \ {last_plot} = DataFiles(temp_files)
    /\ DataFiles(temp_files) # {}

\* C4: whenever the slot changes, its new occupant is named
\* <run_id>_<image name> for the run in progress and an image of its run
\* directory, and that run id is the run id of no earlier occupant.
C4_FreshRunId ==
    [][last_plot' # last_plot =>
          /\ last_plot'[1] = "plot"
          /\ last_plot'[2] = run_id
          /\ run_id \in run_dirs
          /\ \E f \in run_files : f[1] = "png" /\ f[3] = last_plot'[3]
          /\ last_plot'[2] \notin occupants
          /\ last_plot_filename' = last_plot']_vars

C4_Witness == Cardinality(occupants) = 2 /\ last_plot[2] = 2

\* C5: no step taken while the run directory holds no image changes the
\* slot's path or display name or removes the file the slot names; so a query
\* whose run directory has no image at loop end leaves the slot as it was.
C5_NoImageKeepsSlot ==
    [][~RunDirHasImage =>
          /\ last_plot' = last_plot
          /\ last_plot_filename' = last_plot_filename
          /\ last_plot \in temp_files => last_plot \in temp_files']_vars

\* A second run failed (a turn raised) without an image and went through
\* the promotion step; the slot still holds the first run's plot.
C5_Witness ==
    /\ pc = "stop"
    /\ run_id = 2
    /\ raised
    /\ sandbox = "started"
    /\ ~RunDirHasImage
    /\ last_plot # NoPath
    /\ last_plot[2] = 1
    /\ last_plot \in temp_files

\* C6: when a query routed to the loop has ended, on whatever path, its run
\* directory no longer exists.
C6_RunDirRemoved == pc = "done" => run_id \notin run_dirs

\* The sandbox is started whenever a turn is in progress or has been taken
SandboxStartedBeforeTurns ==
    (pc = "respond" \/ AgentTurns > 0) => sandbox = "started"

\* Past the stop step of query()'s cleanup, stop has been called
StopAttemptedAfterLoop ==
    (pc \in {"rmtree", "finish"} \/ (pc = "done" /\ ended \notin {"setup_raised", "report"}))
        => stop_calls >= 1

\* A stop call, failed or not, raises nothing and the cleanup goes on
StopIsSwallowed ==
    pc \in {"orch_finally", "stop"} =>
        /\ raised' = raised
        /\ stop_calls' = stop_calls + 1
        /\ pc' = (IF pc = "stop" THEN "rmtree" ELSE "save_state")

\* C7: the sandbox is started before any agent turn; whenever the try block
\* around the loop was entered, stop has been called by the time the cleanup
\* reaches rmtree; and a stop call, failed or not, never sets an exception
\* going and always lets the cleanup go on.
C7_SandboxLifecycle ==
    /\ [](SandboxStartedBeforeTurns /\ StopAttemptedAfterLoop)
    /\ [][StopIsSwallowed]_vars

\* A query completed although every stop call failed
C7_Witness ==
    /\ pc = "done"
    /\ ended = "completed"
    /\ stop_calls >= 1
    /\ sandbox = "started"

\* C8: the step that destroys a run removes exactly that run's directory and
\* everything in it, and changes neither the files of TEMP_DIR (datasets,
\* the slot's file), nor any other directory, nor the slot.
C8_DestroyRunFrame ==
    [][(pc = "rmtree" /\ run_dirs' # run_dirs) =>
          /\ run_dirs' = run_dirs \ {run_id}
          /\ run_files' = {}
          /\ temp_files' = temp_files
          /\ last_plot' = last_plot
          /\ last_plot_filename' = last_plot_filename]_vars

\* A run was destroyed while a dataset and the slot's file sit in TEMP_DIR
\* and an earlier run's directory is still there
C8_Witness ==
    /\ pc = "finish"
    /\ run_id \notin run_dirs
    /\ run_dirs # {}
    /\ run_files = {}
    /\ DataFiles(temp_files) # {}
    /\ last_plot # NoPath
    /\ last_plot \in temp_files

\* C9: the loop stops by phrase only on a Developer message; an Executor
\* message hands the turn back to the Developer (unless it was the turn at
\* the bound), and a Developer message without the phrase hands the turn to
\* the Executor.
C9_PhraseOnlyFromDeveloper ==
    [][/\ (stop_reason # "phrase" /\ stop_reason' = "phrase")
             => speaker = "code_developer"
       /\ (pc = "respond" /\ speaker = "code_executor" /\ ~raised'
              /\ stop_reason' # "max_turns")
             => (pc' = "respond" /\ speaker' = "code_developer")
       /\ (pc = "respond" /\ speaker = "code_developer" /\ ~raised'
              /\ stop_reason' = "none")
             => (pc' = "respond" /\ speaker' = "code_executor")]_vars

\* C10: the first agent message of a run is the Developer's, no two
\* consecutive agent messages have the same speaker, and at most one turn is
\* in progress.
C10_RoundRobinFromDeveloper ==
    /\ (Len(stream) >= 2 /\ stream[2] \in Agents) => stream[2] = "code_developer"
    /\ \A i \in 1..(Len(stream) - 1) :
          (stream[i] \in Agents /\ stream[i + 1] \in Agents)
             => stream[i] # stream[i + 1]
    /\ speaker \in Agents \cup {"none"}
    /\ pc = "respond" <=> speaker \in Agents

\* C11: in a run whose team was built while a snapshot of an earlier run is
\* stored (and loaded into it), the first speaker of the stream is the
\* Developer, whatever state the earlier run stopped in.
C11_ResumedRunStartsWithDeveloper ==
    [][(pc = "run_stream" /\ team_state.saved /\ pc' = "respond")
          => speaker' = "code_developer"]_vars

\* Positions of the stop-reason marker in the stream
MarkerPositions == {i \in DOMAIN stream : stream[i] = Marker}

\* C12: when the stream of orchestrate has ended, on whatever way, its last
\* item is the stop-reason marker and it holds exactly one marker; and no
\* item is ever yielded after a marker.
C12_StreamEndsWithMarker ==
    /\ pc = "orch_finally" =>
          /\ stream # <<>>
          /\ stream[Len(stream)] = Marker
          /\ Cardinality(MarkerPositions) = 1
    /\ \A i \in MarkerPositions : i = Len(stream)

\* C13 as stated: every item but the final marker carries the tag of the
\* Developer or of the Executor; no item has another prefix.
C13_OnlyAgentTags ==
    \A i \in DOMAIN stream :
        \/ stream[i] \in Agents
        \/ (stream[i] = Marker /\ i = Len(stream))

\* C13 amended: the first item carries the tag "user" (the task message),
\* every later item carries the tag of the agent whose turn produced it
\* (Developer or Executor), except a stop-reason marker, which is the last.
C13_TagsOfTaskAndAgents ==
    /\ \A i \in DOMAIN stream :
          \/ (i = 1 /\ stream[i] = "user")
          \/ (i > 1 /\ stream[i] \in Agents)
          \/ (i > 1 /\ stream[i] = Marker /\ i = Len(stream))
    /\ (pc = "respond" /\ Len(stream) >= 2 /\ stream[Len(stream)] \in Agents)
          => stream[Len(stream)] # speaker

\* A stream with the task message, messages of both agents and the marker
C13_Witness ==
    /\ pc = "orch_finally"
    /\ Len(stream) >= 4
    /\ stream[1] = "user"
    /\ stream[2] = "code_developer"
    /\ stream[3] = "code_executor"
    /\ stream[Len(stream)] = Marker

\* A submitted prompt is routed by its two features, to exactly one path
RoutedToOnePath ==
    (pc = "idle" /\ prompt'.submitted) =>
        IF prompt'.report /\ prompt'.columns
        THEN /\ pc' = "done"
             /\ report'.result \in {"generated", "not_found", "load_failed", "raised"}
             /\ report'.result = "not_found" <=> report'.file = NoPath
             /\ report'.file # NoPath => report'.file \in DataFiles(temp_files')
             /\ run_dirs' = run_dirs
             /\ runs_started' = runs_started
             /\ run_id' = 0
             /\ sandbox' = "new"
             /\ stream' = <<>>
        ELSE /\ pc' = "team_config"
             /\ report' = NoReport
             /\ run_id' \in run_dirs' \ run_dirs

\* The loop runs without a report, on a task that lists the dataset files of
\* its run directory; a report run has no run directory, sandbox or stream
PathsAreExclusive ==
    /\ pc \notin {"idle", "done"} => (report = NoReport /\ run_id # 0)
    /\ pc \in {"start", "run_stream", "respond"} =>
          task_paths = {f \in run_files : f[1] = "data"}
    /\ report # NoReport =>
          (run_id = 0 /\ sandbox = "new" /\ stop_calls = 0 /\ stream = <<>>)

\* C14: a prompt with "report" and a recognized column takes the report path
\* against the resolved dataset, creating no run directory and starting no
\* loop, also when the dataset is not found or cannot be read; any other
\* prompt makes a run directory and goes to the loop with the dataset paths of
\* that directory, and no report is made.
C14_Routing == [][RoutedToOnePath]_vars /\ []PathsAreExclusive

\* A report prompt whose dataset could not be read, after an earlier loop query
C14_Witness ==
    /\ pc = "done"
    /\ prompt.report /\ prompt.columns
    /\ report.result = "load_failed"
    /\ runs_started >= 1
    /\ run_id = 0

C16_DatasetResolution ==
    [][report' # report /\ report' # NoReport =>
          LET files == DataFiles(temp_files')
              number == report'.token[2]
              file == report'.file
          IN /\ (report'.token # NoToken /\ \E f \in files : f[2] = number)
                   => (file \in files /\ file[2] = number)
             /\ (report'.token # NoToken /\ ~\E f \in files : f[2] = number)
                   => file = NoPath
             /\ (report'.token = NoToken /\ files # {})
                   => /\ file \in files
                      /\ \A g \in files \ {file} :
                            LexLess(NameChars(file), NameChars(g))]_vars

\* A prompt without a token resolved among three datasets
C16_Witness ==
    /\ pc = "done"
    /\ report.token = NoToken
    /\ Cardinality(DataFiles(temp_files)) = 3
    /\ report.file \in temp_files
    /\ report.file[2] = 1
    /\ report.result = "generated"

\* First and last value of the series
First == series[1]
Last == series[Len(series)]

PlotFiles(files) == {f \in files : f[1] = "plot"}

\* The promotion block: its copy step deletes nothing and changes the slot
\* only to a file that then exists; when the copy fails the slot and the
\* files are as before and the deletion step is skipped
CopyBeforeDelete ==
    pc = "promote" =>
        /\ temp_files \subseteq temp_files'
        /\ last_plot' # last_plot =>
              (last_plot' \in temp_files' /\ pc' = "unlink_previous"
                  /\ previous_path' = last_plot)
        /\ pc' = "stop" =>
              (last_plot' = last_plot /\ last_plot_filename' = last_plot_filename
                  /\ (last_plot \in temp_files => last_plot \in temp_files'))

\* The deletion step removes at most the previous occupant's file, which is
\* not the new one, and leaves the slot on the new file, which stays
DeleteOnlyPrevious ==
    pc = "unlink_previous" =>
        /\ last_plot[2] = run_id
        /\ last_plot' = last_plot
        /\ last_plot_filename' = last_plot_filename
        /\ last_plot \in temp_files'
        /\ temp_files \ temp_files' \subseteq {previous_path} \ {last_plot}
        /\ temp_files' \subseteq temp_files

\* No other step of a query's cleanup removes a plot file
NoOtherPlotDeletion ==
    pc \in {"save_state", "stop", "rmtree", "finish"} =>
        PlotFiles(temp_files') = PlotFiles(temp_files)

\* C18: in the promotion the previous occupant's file is deleted only after
\* the new image was copied and the slot updated to it, and only if it is
\* another file than the new one; a failed copy changes neither the slot nor
\* the previous file; a failed deletion leaves the slot on the new file.
C18_PromotionOrder ==
    [][CopyBeforeDelete /\ DeleteOnlyPrevious /\ NoOtherPlotDeletion]_vars

\* The second run's plot is in the slot and the first run's plot, whose
\* deletion failed, is still in TEMP_DIR
C18_Witness ==
    /\ pc = "stop"
    /\ run_id = 2
    /\ last_plot[2] = 2
    /\ last_plot \in temp_files
    /\ \E f \in temp_files : f[1] = "plot" /\ f[2] = 1

\* The cleanup reaches the removal of run_dir only through the promotion
PromotionBeforeRemoval ==
    /\ pc' = "rmtree" /\ pc # "rmtree" => pc = "stop"
    /\ pc' = "stop" /\ pc # "stop" => pc \in {"promote", "unlink_previous"}
    /\ (run_id \in run_dirs /\ run_id \notin run_dirs') => pc = "rmtree"
    /\ pc = "promote" => run_id \in run_dirs

\* With an image in run_dir, the promotion puts a copy named after this run
\* into the slot, unless the scan or the copy failed
PromotionSalvages ==
    (pc = "promote" /\ RunDirHasImage) =>
        \/ /\ run_id \in occupants'
           /\ last_plot' = <<"plot", run_id, last_plot'[3]>>
           /\ \E f \in Pngs(run_files) : f[3] = last_plot'[3]
           /\ last_plot' \in temp_files'
        \/ /\ pc' = "stop"
           /\ occupants' = occupants
           /\ last_plot' = last_plot

\* After a successful copy the slot holds this run's copy, which exists, all
\* the way to the end of the query and after run_dir is gone
CopySurvives ==
    (pc \in {"unlink_previous", "stop", "rmtree", "finish", "done"}
        /\ run_id # 0 /\ run_id \in occupants) =>
        /\ last_plot[1] = "plot"
        /\ last_plot[2] = run_id
        /\ last_plot \in temp_files

\* C19: on every path through the cleanup the promotion comes before the
\* removal of the run directory; so when the run directory holds an image at
\* loop end and the copy succeeds, the slot points to an existing copy of an
\* image of that run after the query has ended and the directory is gone.
C19_ImageSurvivesTeardown ==
    /\ [][PromotionBeforeRemoval /\ PromotionSalvages]_vars
    /\ []CopySurvives

\* A query ended, its run directory is gone, and the slot holds its plot
C19_Witness ==
    /\ pc = "done"
    /\ ended = "completed"
    /\ run_id \notin run_dirs
    /\ run_id \in occupants
    /\ last_plot[2] = run_id
    /\ last_plot \in temp_files

\* C20: a Developer message containing the terminator phrase stops the loop
\* only if an Executor message of this run has already reported a successful
\* execution.
C20_TerminateOnlyAfterExecution ==
    [][(pc = "respond" /\ speaker = "code_developer" /\ stop_reason' = "phrase")
          => executed_ok]_vars

\* The image selected at the promotion step has the latest modification
\* time of the images in the run directory
SelectsLatestMtime ==
    \A listing \in GlobOrders(run_files) :
        \A g \in Pngs(run_files) : g[2] <= LatestPng(listing)[2]

\* The image selected does not depend on the order of the listing
SelectionIgnoresListingOrder ==
    \A l1, l2 \in GlobOrders(run_files) : LatestPng(l1) = LatestPng(l2)

\* C21: at the promotion step, when the run directory holds images, the image
\* selected has the latest modification time, and it is the same image for
\* every order in which the filesystem may list the same files: the selection
\* is a function of the set of (name, modification time) pairs.
C21_DeterministicSelection ==
    (pc = "promote" /\ Pngs(run_files) # {}) =>
        (SelectsLatestMtime /\ SelectionIgnoresListingOrder)

\* After a failed load the loop is entered with a fresh team and nothing is
\* raised
LoadFailureStartsFresh ==
    (load_failed /\ pc = "start") =>
        /\ next_speaker_index = 0
        /\ current_turn = 0
        /\ ~raised

\* The load step, failed or not, is followed by the start of the loop; the
\* save step, failed or not, is followed by the promotion and sets no
\* exception going
SnapshotStepGoesOn ==
    /\ pc = "load_state" => (pc' = "start" /\ raised' = raised)
    /\ pc = "save_state" => (pc' = "promote" /\ raised' = raised)

\* After a failed save the cleanup goes through its remaining steps in
\* order: promotion, sandbox stop, run-directory removal
CleanupAfterSaveFailure ==
    save_failed' =>
        /\ pc = "promote" => pc' \in {"unlink_previous", "stop"}
        /\ pc = "unlink_previous" => pc' = "stop"
        /\ pc = "stop" => (pc' = "rmtree" /\ stop_calls' = stop_calls + 1)
        /\ pc = "rmtree" =>
              /\ rmtree_calls' = rmtree_calls + 1
              /\ pc' = (IF raised THEN "done" ELSE "finish")
        /\ raised' = raised

\* A query whose save failed has, when it ends, called stop and rmtree, and
\* it ends with an exception only if the loop raised one
SaveFailureEndsClean ==
    (save_failed /\ pc = "done") =>
        /\ stop_calls >= 1
        /\ rmtree_calls = 1
        /\ ended = (IF raised THEN "raised" ELSE "completed")

\* C22: a failure to load the stored snapshot leaves the team fresh and the
\* loop is entered; a failure to save the snapshot raises nothing, and the
\* promotion, the sandbox stop and the run-directory removal follow it.
C22_SnapshotFailuresNonFatal ==
    /\ [](LoadFailureStartsFresh /\ SaveFailureEndsClean)
    /\ [][SnapshotStepGoesOn /\ CleanupAfterSaveFailure]_vars

\* A query completed although both the load and the save of the snapshot
\* failed
C22_Witness ==
    /\ pc = "done"
    /\ ended = "completed"
    /\ load_failed
    /\ save_failed
    /\ rmtree_calls = 1
    /\ stop_calls = 2

\* C23: when a loop query has ended, whether the loop terminated (phrase or
\* turn bound), the sandbox failed to start, or a turn raised, local
\* executor stop has been called exactly once and rmtree of the run
\* directory has been called exactly once in that query.
C23_CleanupExactlyOnce ==
    (pc = "done" /\ ended \in {"completed", "raised"}) =>
        (stop_calls = 1 /\ rmtree_calls = 1)

\* The items of the stream with their texts
StreamMsgs == [i \in DOMAIN stream |-> Msg(stream[i], i)]

IsAgentMsg(msg) == msg[1] \in Agents

\* The last three code_developer/code_executor items of the stream
LastThreeAgentMsgs ==
    LET agent_msgs == SelectSeq(StreamMsgs, IsAgentMsg)
        n == Len(agent_msgs) IN
    SubSeq(agent_msgs, IF n > 3 THEN n - 2 ELSE 1, n)

\* While the stream is consumed, non_meta_messages holds its last three
\* agent items
WindowFollowsStream ==
    pc \in {"respond", "orch_finally"} =>
        non_meta_messages = LastThreeAgentMsgs

\* Positions of the developer's messages in non_meta_messages
DeveloperPositions ==
    {i \in DOMAIN non_meta_messages :
        non_meta_messages[i][1] = "code_developer"}

\* The step that ends a query without an exception stores the most recent
\* developer message of non_meta_messages and nothing else
StoresLastDeveloperMsg ==
    pc = "finish" =>
        IF DeveloperPositions = {}
        THEN messages' = <<>>
        ELSE /\ Len(messages') = 1
             /\ \E i \in DeveloperPositions :
                   /\ messages'[1] = non_meta_messages[i]
                   /\ \A j \in DeveloperPositions : j <= i

\* No other step changes the stored messages
OnlyFinishStores == pc # "finish" => messages' = messages

\* The stored list holds at most one message, a developer's
AtMostOneDeveloperMsg ==
    /\ Len(messages) <= 1
    /\ \A i \in DOMAIN messages : messages[i][1] = "code_developer"

\* A query in which an exception is propagating never reaches the step that
\* stores the messages
RaisedNeverStores == pc = "finish" => ~raised

\* C24: after a loop query that completes without an exception the stored
\* message list holds the most recent code_developer message among the last
\* three agent items of the stream and nothing else, or is empty when there
\* is none; marker, task and executor items are never stored; a query that
\* raised leaves the list as it was.
C24_StoredMessages ==
    /\ [](WindowFollowsStream /\ AtMostOneDeveloperMsg /\ RaisedNeverStores)
    /\ [][StoresLastDeveloperMsg /\ OnlyFinishStores]_vars

\* A completed query kept two developer messages of different texts among
\* its last three items and stored the later one
C24_Witness ==
    /\ pc = "done"
    /\ ended = "completed"
    /\ Len(non_meta_messages) = 3
    /\ non_meta_messages[1][1] = "code_developer"
    /\ non_meta_messages[3][1] = "code_developer"
    /\ non_meta_messages[1] # non_meta_messages[3]
    /\ messages = <<non_meta_messages[3]>>

=============================================================================
